---- MODULE Spec2Model ----
(***************************************************************************)
(* A model of the vertex runtime of machine.go: the wiring of a vertex     *)
(* (cascade and the six handler wrappers), and the dispatch loop started   *)
(* by run, which takes batches of packets from the vertex's input edge and *)
(* invokes the wrapped handler on them, synchronously (Option.FIFO) or on  *)
(* a goroutine of its own.                                                 *)
(*                                                                         *)
(* A handler is a chain of wrapper names, outermost first; wrapping        *)
(* prepends.  An invocation walks the chain down (the part of each wrapper *)
(* before its call of h), runs the raw handler, and walks the chain up     *)
(* (the part of each wrapper after h returned).  Packets live in a heap:   *)
(* a batch is a sequence of references, as []*Packet is.                   *)
(***************************************************************************)
EXTENDS Integers, Sequences, FiniteSets, TLC

VARIABLES
    ctxDone,    \* the graph lifetime context has been cancelled
    builder,    \* the builder: option, recorder (is one set), vertacies
    vtx,        \* vertex id -> the vertex struct
    conn,       \* vertex id -> number of calls of its connector
    links,      \* edge merges made by sendTo: <<from, to>>
    edges,      \* edge -> the batches buffered in its channel
    loops,      \* the goroutines started by run
    invs,       \* vertex id -> the invocations of its handler, as dispatched
    takes,      \* vertex id -> the batches its loops received, in order
    heap,       \* packet reference -> packet
    spans,      \* trace handle -> [ended, events]
    source,     \* what the producer sends: [traced, data]
    nsent,      \* number of batches placed on the source edge so far
    ncascade    \* number of cascade calls made so far

vars == <<ctxDone, builder, vtx, conn, links, edges, loops, invs, takes,
          heap, spans, source, nsent, ncascade>>

(***************************************************************************)
(* Bounds.                                                                 *)
(***************************************************************************)
MaxSend == 2        \* batches placed on the source edge
MaxPkts == 2        \* packets of a batch
MaxCascade == 3     \* cascade calls in a wiring run

(***************************************************************************)
(* The graph: vertex a reads edge "in"; its raw handler forwards to        *)
(* edge "ab", the input of b when b is wired; b forwards to "out".         *)
(***************************************************************************)
Vertices == {"a", "b"}
Edges == {"in", "ab", "out"}
NoEdge == "nil"
VertexTypes == {"stream", "map", "transmit"}
Out(v) == IF v = "a" THEN "ab" ELSE "out"

\* An Option holds pointers to booleans: <<>> is nil, <<x>> points to x.
OptionFields == {"Span", "Metrics", "Debug", "DeepCopy", "FIFO"}
Set(x) == <<x>>
Options == [OptionFields -> {Set(TRUE), Set(FALSE)}]
NoOption == [f \in OptionFields |-> <<>>]

\* *v.option.F
Opt(vx, f) == vx.option[f][1]

(***************************************************************************)
(* Option.merge: a field the vertex sets wins, an unset one falls through  *)
(* to the builder's.                                                       *)
(***************************************************************************)
merge(def, local) ==
    [f \in OptionFields |-> IF local[f] # <<>> THEN local[f] ELSE def[f]]

(***************************************************************************)
(* The wrappers.  Each captures h == v.handler and installs a closure      *)
(* around it: the chain grows at its head.                                 *)
(***************************************************************************)
Wrap(vx, w) == [vx EXCEPT !.handler = <<w>> \o @]

record(vx, r) == IF r THEN Wrap(vx, "record") ELSE vx

metrics(vx) == IF Opt(vx, "Metrics") THEN Wrap(vx, "metrics") ELSE vx

span(vx) == Wrap(vx, "span")

deepCopy(vx) == IF Opt(vx, "DeepCopy") THEN Wrap(vx, "deepCopy") ELSE vx

debug(vx) == IF Opt(vx, "Debug") THEN Wrap(vx, "debug") ELSE vx

recover(vx) == Wrap(vx, "recover")

IsWired(v) == vtx[v].input # NoEdge

\* cascade's guard: the vertex is wired already and is no stream.
AlreadyWiredNever(vx) == FALSE
AlreadyWiredOnlyStream(vx) == vx.input # NoEdge /\ vx.vertexType = "stream"
AlreadyWired(vx) == vx.input # NoEdge /\ vx.vertexType # "stream"

\* (Wired with debug and deepCopy installed in the other order.)
WiredSwapped(vx, b, input) ==
    LET v0 == [vx EXCEPT !.option = merge(b.option, vx.option),
                         !.input = input]
    IN recover(deepCopy(debug(span(metrics(record(v0, b.recorder))))))

\* (Wired with record installed last, around every other wrapper.)
WiredRecordLast(vx, b, input) ==
    LET v0 == [vx EXCEPT !.option = merge(b.option, vx.option),
                         !.input = input]
    IN record(recover(debug(deepCopy(span(metrics(v0))))), b.recorder)

\* (Wired with deepCopy installed before metrics and span, inside them.)
WiredCopyInner(vx, b, input) ==
    LET v0 == [vx EXCEPT !.option = merge(b.option, vx.option),
                         !.input = input]
    IN recover(debug(span(metrics(deepCopy(record(v0, b.recorder))))))

\* The vertex after the second branch of cascade, up to v.recover().
Wired(vx, b, input) ==
    LET v0 == [vx EXCEPT !.option = merge(b.option, vx.option),
                         !.input = input]
    IN recover(debug(deepCopy(span(metrics(record(v0, b.recorder))))))

\* run: one goroutine, waiting in its select.
run(v) == [v |-> v, state |-> "select"]

\* What recover() returns in the deferred function of line 183: nil for
\* panic(nil), the value otherwise (a runtime error is never nil).
PanicValues == {"nil", "error"}

\* A vertex as constructed, before any cascade.
\* raw is the function the vertex was given: what it does to a packet.
\* panics is the set of values the code the vertex calls (that function,
\* the recorder, the meter, the tracer) may panic with: values that are
\* not nil, unless a specification says otherwise.  nth is the set of
\* tracer calls of a wrapper's loop over the payload that may panic: the
\* first, unless a specification says otherwise.
NewVertex(id, type, local, raw) ==
    [id |-> id, vertexType |-> type, input |-> NoEdge,
     handler |-> <<>>, raw |-> raw, option |-> local, panics |-> {"error"},
     nth |-> {1}]

\* (The same vertex, calling code that may also execute panic(nil), and
\* calling code that never panics.)
PanicsNil(vx) == [vx EXCEPT !.panics = PanicValues]
NoPanics(vx) == [vx EXCEPT !.panics = {}]

\* (The same vertex, with a tracer that may panic at any of its calls: at
\* most two for each packet, before h and after it.)
PanicsAnyCall(vx) == [vx EXCEPT !.nth = 1..(2 * MaxPkts)]

(***************************************************************************)
(* cascade.                                                                *)
(***************************************************************************)
Cascade(v, input) ==
    /\ ncascade < MaxCascade
    /\ ncascade' = ncascade + 1
    /\ IF AlreadyWired(vtx[v])
       THEN /\ links' = links \cup {<<input, vtx[v].input>>}
            /\ UNCHANGED <<vtx, loops, builder, conn>>
       ELSE /\ vtx' = [vtx EXCEPT ![v] = Wired(@, builder, input)]
            /\ loops' = Append(loops, run(v))
            /\ builder' = [builder EXCEPT !.vertacies = @ \cup {v}]
            /\ conn' = [conn EXCEPT ![v] = @ + 1]
            /\ UNCHANGED links
    /\ UNCHANGED <<ctxDone, edges, invs, takes, heap, spans, source, nsent>>

(***************************************************************************)
(* Packets live in a heap of references.  The j-th packet of the n-th      *)
(* batch sent has reference 10 * n + j, which is also its ID; the copy     *)
(* that the deepCopy wrapper at depth k of vertex v makes of r, and the    *)
(* span that a span wrapper opens for r, get references derived from r.    *)
(* span is 0 (nil) or a trace handle.  Data "bad" stands for a payload     *)
(* the serializer cannot encode.                                           *)
(***************************************************************************)
VIdx(v) == IF v = "a" THEN 1 ELSE 2
Ref(n, j) == 10 * n + j
CopyRef(r, v, k) == r + 100 * (10 * VIdx(v) + k)
SpanRef(r) == r + 50

NewPacket(id, data, sp) ==
    [ID |-> id, Data |-> data, Error |-> FALSE, span |-> sp,
     Snapshots |-> <<>>]

NewSpan == [ended |-> 0, events |-> 0]

IDs(h, payload) == [i \in 1..Len(payload) |-> h[payload[i]].ID]

\* enc.Encode(payload) succeeds.
GobOK(h, payload) == \A i \in 1..Len(payload) : h[payload[i]].Data # "bad"

\* One packet through enc.Encode and dec.Decode: the exported fields, and
\* no span (an unexported field).
GobCopy(p) == [p EXCEPT !.span = 0]

\* The machine an invocation acts on: the heap, the trace handles and the
\* invocation itself; out holds the batch the raw handler forwards, and
\* crashed says that a panic met no recover.
Machine(inv) ==
    [heap |-> heap, spans |-> spans, inv |-> inv, out |-> <<>>,
     crashed |-> FALSE, fuse |-> 0, val |-> "error", thrown |-> <<>>]

Payload(inv) == inv.frames[inv.depth]

Event(M, w, what) == [M EXCEPT !.inv.events = Append(@, <<w, what>>)]

\* Wrapper k calls h(p): the next wrapper, or the raw handler, gets p.
Call(M, p) ==
    [M EXCEPT !.inv.frames = Append(@, p), !.inv.depth = @ + 1]

\* Wrapper k returns to the one that called it.
Ret(M) ==
    [M EXCEPT !.inv.frames = SubSeq(@, 1, Len(@) - 1), !.inv.depth = @ - 1]

(***************************************************************************)
(* deepCopy, lines 210-219: out is the decoded copy of payload (empty when *)
(* encoding failed), and each out[i] gets the span of payload[i].          *)
(***************************************************************************)
CopyRefsShared(payload, v, k) == payload
CopyRefs(payload, v, k) ==
    [i \in 1..Len(payload) |-> CopyRef(payload[i], v, k)]

\* Line 218, out[i].span = val.span.
WithSpanDropped(out, val) == out
WithSpan(out, val) == [out EXCEPT !.span = val.span]

RECURSIVE CopyHeap(_, _, _, _, _)
CopyHeap(h, payload, v, k, i) ==
    IF i > Len(payload) THEN h
    ELSE CopyHeap((CopyRef(payload[i], v, k) :>
                     WithSpan(GobCopy(h[payload[i]]), h[payload[i]])) @@ h,
                  payload, v, k, i + 1)

(***************************************************************************)
(* The tracer is called once for each span opened, each event and each     *)
(* span ended, inside the loops over the payload.  M.fuse is the number,   *)
(* counted from here, of the call that panics (0 for none) and M.val the   *)
(* value it panics with; M.thrown holds the value of a panic in flight,    *)
(* after which the loops do nothing more.  N is M with the call's effect.  *)
(***************************************************************************)
Traced(M, N) ==
    IF M.fuse = 1 THEN [M EXCEPT !.thrown = <<M.val>>, !.fuse = 0]
    ELSE [N EXCEPT !.fuse = IF @ = 0 THEN 0 ELSE @ - 1]

\* The wrapper at depth k starts, or goes on after h returned, under fault f.
Arm(M, f, k) == [M EXCEPT !.fuse = IF f.at = k THEN f.n ELSE 0, !.val = f.r]

Disarm(M) == [M EXCEPT !.fuse = 0, !.thrown = <<>>]

(***************************************************************************)
(* span, lines 60-75: each packet without a span gets a new one, and each  *)
(* span gets a "vertex" event.                                             *)
(***************************************************************************)
RECURSIVE SpanPre(_, _, _)
SpanPre(M, payload, i) ==
    IF i > Len(payload) \/ M.thrown # <<>> THEN M
    ELSE LET r == payload[i]
             sp == SpanRef(r)
             M1 == IF M.heap[r].span = 0
                   THEN Traced(M, [M EXCEPT !.heap[r].span = sp,
                                            !.spans = (sp :> NewSpan) @@ @])
                   ELSE M
             M2 == IF M1.thrown # <<>> THEN M1
                   ELSE Traced(M1, [M1 EXCEPT
                                      !.spans[M1.heap[r].span].events = @ + 1])
         IN SpanPre(M2, payload, i + 1)

\* lines 79-93: an "error" event for each packet with an error; on a
\* packet that has no span the call of line 84 is a nil dereference.
RECURSIVE SpanErrors(_, _, _)
SpanErrors(M, payload, i) ==
    IF i > Len(payload) \/ M.thrown # <<>> THEN M
    ELSE LET p == M.heap[payload[i]]
         IN SpanErrors(IF ~p.Error THEN M
                       ELSE IF p.span = 0
                       THEN [M EXCEPT !.thrown = <<"error">>]
                       ELSE Traced(M, [M EXCEPT !.spans[p.span].events = @ + 1]),
                       payload, i + 1)

\* lines 95-101: a transmit vertex ends every span there is.
SpanEndNone(M, payload, i) == M
RECURSIVE SpanEnd(_, _, _)
SpanEnd(M, payload, i) ==
    IF i > Len(payload) \/ M.thrown # <<>> THEN M
    ELSE LET p == M.heap[payload[i]]
         IN SpanEnd(IF p.span # 0
                    THEN Traced(M, [M EXCEPT !.spans[p.span].ended = @ + 1])
                    ELSE M, payload, i + 1)

(***************************************************************************)
(* debug, lines 156-173: out is the payload as encoded and decoded when    *)
(* the handler has returned, empty when encoding failed; the loop of       *)
(* lines 163-173 appends one record per packet of out, with the Data of    *)
(* out as its snapshot.                                                    *)
(***************************************************************************)
DebugInfo(id, data) == [ID |-> id, Snapshot |-> data]

SnapshottedNone(h, vx, payload) == <<>>
Snapshotted(h, vx, payload) ==
    IF GobOK(h, payload)
    THEN [i \in 1..Len(payload) |-> DebugInfo(vx.id, h[payload[i]].Data)]
    ELSE <<>>

(***************************************************************************)
(* The raw handler: it changes the packets it was given (their Data, or    *)
(* their Error, as the function the vertex was built with does) and        *)
(* forwards them to the vertex's output edge; a transmit vertex has none.  *)
(***************************************************************************)
RawKinds == {"data", "error"}

Mutate(h, payload, raw) ==
    [r \in DOMAIN h |->
       IF \E i \in 1..Len(payload) : payload[i] = r
       THEN [h[r] EXCEPT !.Data = IF raw = "data" /\ @ # "bad" THEN "d1" ELSE @,
                         !.Error = IF raw = "error" THEN TRUE ELSE @]
       ELSE h[r]]

Raw(M, vx) ==
    LET payload == Payload(M.inv)
        fwd == vx.vertexType # "transmit"
    IN [M EXCEPT !.heap = Mutate(@, payload, vx.raw),
                 !.out = IF fwd THEN <<payload>> ELSE <<>>,
                 !.inv.seen = payload,
                 !.inv.fwd = fwd]

(***************************************************************************)
(* An invocation of v.handler(data).  chain is the handler called; depth   *)
(* is the wrapper executing (the raw handler at Len(chain) + 1) and        *)
(* frames[k] the payload wrapper k was called with.  f is the fault of     *)
(* the steps taken now: f.at is the depth at which the code called         *)
(* panics, a wrapper's collaborator (the recorder, the meter, the tracer)  *)
(* or the raw handler, 0 for none; f.r is the value it panics with and     *)
(* f.n the number of the call that panics, among the calls the wrapper     *)
(* makes in these steps (a run with fewer calls has no panic).             *)
(***************************************************************************)
Max(S) == CHOOSE x \in S : \A y \in S : y <= x

NoFault == [at |-> 0, r |-> "error", n |-> 0]

RECURSIVE Down(_, _, _), Up(_, _, _), Panic(_, _, _, _)

(***************************************************************************)
(* recover, lines 182-199: a panic with value r unwinds to the innermost   *)
(* recover wrapper on the stack, whose deferred function stops it and,     *)
(* when recover() is not nil (line 183), logs the vertex and the ids of    *)
(* its payload; that wrapper then returns to its caller.  With no recover  *)
(* on the stack the goroutine, and the process, die.                       *)
(***************************************************************************)
Panic(M, vx, f, r) ==
    LET inv == M.inv
        G == {j \in 1..(inv.depth - 1) : inv.chain[j] = "recover"}
    IN IF G = {}
       THEN [M EXCEPT !.crashed = TRUE, !.inv.pc = "crashed",
                      !.inv.faults = @ + 1]
       ELSE LET j == Max(G)
                M1 == [M EXCEPT
                         !.inv.frames = SubSeq(@, 1, j),
                         !.inv.depth = j,
                         !.inv.faults = @ + 1,
                         !.inv.log =
                            IF r # "nil"
                            THEN Append(@, [id |-> vx.id,
                                            type |-> vx.vertexType,
                                            ids |-> IDs(M.heap, inv.frames[j])])
                            ELSE @]
            IN Up(Ret(Event(M1, "recover", "post")), vx, f)

\* The wrappers' code up to h(payload), from wrapper depth inward, then the
\* raw handler, unless a panic ends the descent.
Down(M, vx, f) ==
    LET inv == M.inv
        k == inv.depth
    IN IF k > Len(inv.chain)
       THEN LET M1 == Raw(Event(M, "handler", "call"), vx)
            IN IF f.at = k
               THEN Panic([M1 EXCEPT !.out = <<>>, !.inv.fwd = FALSE],
                          vx, f, f.r)
               ELSE Ret([M1 EXCEPT !.inv.pc = "return"])
       ELSE
       LET w == inv.chain[k]
           payload == inv.frames[k]
           M1 == Event(M, w, "pre")
       IN CASE w \in {"record", "metrics"} ->
                 IF f.at = k THEN Panic(M1, vx, f, f.r)
                 ELSE Down(Call(M1, payload), vx, f)
            [] w = "span" ->
                 IF ~Opt(vx, "Span") THEN Down(Call(M1, payload), vx, f)
                 ELSE LET M2 == SpanPre(Arm(M1, f, k), payload, 1)
                      IN IF M2.thrown # <<>>
                         THEN Panic(Disarm(M2), vx, f, M2.thrown[1])
                         ELSE Down(Call(Disarm(M2), payload), vx, f)
            [] w = "deepCopy" ->
                 IF GobOK(M.heap, payload)
                 THEN Down(Call([M1 EXCEPT
                                   !.heap = CopyHeap(@, payload, vx.id, k, 1)],
                                CopyRefs(payload, vx.id, k)), vx, f)
                 ELSE IF payload = <<>> THEN Down(Call(M1, <<>>), vx, f)
                 ELSE Panic(M1, vx, f, "error")  \* out[0]: index out of range
            [] w \in {"debug", "recover"} ->
                 Down(Call(M1, payload), vx, f)

\* The wrappers' code after h(payload) returned, from wrapper depth
\* outward, until a debug wrapper reaches its loop over a non-empty out
\* (line 163), or the outermost wrapper has returned.
Up(M, vx, f) ==
    LET inv == M.inv
        k == inv.depth
    IN IF k = 0 THEN [M EXCEPT !.inv.pc = "done"]
       ELSE
       LET w == inv.chain[k]
           payload == inv.frames[k]
           M1 == Event(M, w, "post")
       IN CASE w \in {"record", "deepCopy", "recover"} -> Up(Ret(M1), vx, f)
            [] w = "metrics" ->
                 IF f.at = k THEN Panic(M1, vx, f, f.r)
                 ELSE Up(Ret(M1), vx, f)
            [] w = "span" ->
                 LET on == Opt(vx, "Span")
                     last == vx.vertexType = "transmit"
                     M0 == Arm(M1, f, k)
                     M2 == IF on THEN SpanErrors(M0, payload, 1) ELSE M0
                     M3 == IF last THEN SpanEnd(M2, payload, 1) ELSE M2
                 IN IF M3.thrown # <<>>
                    THEN Panic(Disarm(M3), vx, f, M3.thrown[1])
                    ELSE Up(Ret(Disarm(M3)), vx, f)
            [] w = "debug" ->
                 LET out == Snapshotted(M.heap, vx, payload)
                 IN IF out = <<>> THEN Up(Ret(M1), vx, f)
                    ELSE [M1 EXCEPT !.inv.pc = "read", !.inv.pend = out,
                                    !.inv.n = 1]

\* The depths at which a collaborator or the raw handler is called.
FaultDepths(chain) ==
    {Len(chain) + 1}
        \cup {k \in 1..Len(chain) : chain[k] \in {"record", "metrics", "span"}}

\* The calls that may panic at depth k: those of the tracer that vx.nth
\* names in the span wrapper; the first elsewhere, where the calls before
\* it leave nothing behind.
Calls(vx, chain, k) ==
    IF k <= Len(chain) /\ chain[k] = "span" THEN vx.nth ELSE {1}

\* The faults of a step of an invocation of vx's handler chain: none, or a
\* panic of the code called at one of these depths, with one of the values
\* that code panics with.
Faults(vx, chain) ==
    {NoFault} \cup
        UNION {{[at |-> k, r |-> r, n |-> n] :
                   r \in vx.panics, n \in Calls(vx, chain, k)} :
               k \in FaultDepths(chain)}

(***************************************************************************)
(* The actions of a running graph.                                         *)
(***************************************************************************)
Crashed == \E l \in DOMAIN loops : loops[l].state = "crashed"

BatchSizes == {0, MaxPkts}

\* A producer places a batch of n new packets on the source edge.
Send(n) ==
    /\ ~Crashed
    /\ nsent < MaxSend
    /\ nsent' = nsent + 1
    /\ LET refs == [j \in 1..n |-> Ref(nsent', j)]
       IN /\ heap' = [r \in {refs[j] : j \in 1..n} |->
                        NewPacket(r, source.data,
                                  IF source.traced THEN r ELSE 0)] @@ heap
          /\ spans' = IF source.traced
                      THEN [r \in {refs[j] : j \in 1..n} |-> NewSpan] @@ spans
                      ELSE spans
          /\ edges' = [edges EXCEPT !["in"] = Append(@, refs)]
    /\ UNCHANGED <<ctxDone, builder, vtx, conn, links, loops, invs, takes,
                   source, ncascade>>

\* The graph lifetime context is cancelled.
Cancel ==
    /\ ~Crashed
    /\ ~ctxDone
    /\ ctxDone' = TRUE
    /\ UNCHANGED <<builder, vtx, conn, links, edges, loops, invs, takes,
                   heap, spans, source, nsent, ncascade>>

\* v.handler(data) as the loop l dispatches it, nothing of it executed yet.
NewInvocation(l, data, sync) ==
    [v |-> loops[l].v, loop |-> l, sync |-> sync,
     chain |-> vtx[loops[l].v].handler, batch |-> data,
     pc |-> "enter", depth |-> 1, frames |-> <<data>>, events |-> <<>>,
     pend |-> <<>>, n |-> 0, read |-> <<>>, seen |-> <<>>, fwd |-> FALSE, faults |-> 0,
     log |-> <<>>,
     orig |-> [i \in 1..Len(data) |->
                 <<heap[data[i]].Data, heap[data[i]].Error>>]]

\* (Commit with the loop waiting for every invocation it dispatched.)
CommitWaits(v, i, M) ==
    /\ heap' = M.heap
    /\ spans' = M.spans
    /\ invs' = [invs EXCEPT ![v] = IF i > Len(@) THEN Append(@, M.inv)
                                   ELSE [@ EXCEPT ![i] = M.inv]]
    /\ loops' = [loops EXCEPT ![M.inv.loop].state =
                    IF M.inv.pc = "done" THEN "select" ELSE "busy"]

\* What the steps of invocation i of v leave: a loop that called the
\* handler itself waits for it to return; an unrecovered panic ends the
\* process.
Commit(v, i, M) ==
    /\ heap' = M.heap
    /\ spans' = M.spans
    /\ invs' = [invs EXCEPT ![v] = IF i > Len(@) THEN Append(@, M.inv)
                                   ELSE [@ EXCEPT ![i] = M.inv]]
    /\ loops' = IF M.crashed
                THEN [l \in DOMAIN loops |->
                        [loops[l] EXCEPT !.state = "crashed"]]
                ELSE IF M.inv.sync
                THEN [loops EXCEPT ![M.inv.loop].state =
                        IF M.inv.pc = "done" THEN "select" ELSE "busy"]
                ELSE loops

Forwarded(e, v, M) ==
    IF M.out # <<>> THEN [e EXCEPT ![Out(v)] = @ \o M.out] ELSE e

\* Line 245: a batch with no packet is skipped.
SkippedNever(data) == FALSE
Skipped(data) == Len(data) < 1

\* Line 249: the loop calls the handler itself.
SerialNever(vx) == FALSE
Serial(vx) == Opt(vx, "FIFO")

\* run, lines 244-253: the select receives a batch from the input channel.
\* An empty batch is skipped; another is handled by the loop itself when
\* FIFO is set (the call runs to the return of the raw handler here), and
\* by a new goroutine otherwise.
Take(l, f) ==
    /\ loops[l].state = "select"
    /\ LET v == loops[l].v
           e == vtx[v].input
       IN /\ e \in Edges
          /\ edges[e] # <<>>
          /\ LET data == Head(edges[e])
                 rest == [edges EXCEPT ![e] = Tail(@)]
                 i == Len(invs[v]) + 1
             IN /\ takes' = [takes EXCEPT ![v] =
                               Append(@, [loop |-> l, batch |-> data,
                                          done |-> ctxDone])]
                /\ IF Skipped(data)
                   THEN /\ f = NoFault
                        /\ edges' = rest
                        /\ UNCHANGED <<invs, loops, heap, spans>>
                   ELSE IF Serial(vtx[v])
                   THEN /\ f \in Faults(vtx[v], vtx[v].handler)
                        /\ LET M == Down(Machine(NewInvocation(l, data, TRUE)),
                                         vtx[v], f)
                           IN /\ Commit(v, i, M)
                              /\ edges' = Forwarded(rest, v, M)
                   ELSE /\ f = NoFault
                        /\ edges' = rest
                        /\ Commit(v, i, Machine(NewInvocation(l, data, FALSE)))
    /\ UNCHANGED <<ctxDone, builder, vtx, conn, links, source, nsent, ncascade>>

\* run, lines 242-243: the select finds the context done and the loop ends.
StopNever(l) == FALSE /\ UNCHANGED vars
Stop(l) ==
    /\ loops[l].state = "select"
    /\ ctxDone
    /\ loops' = [loops EXCEPT ![l].state = "stopped"]
    /\ UNCHANGED <<ctxDone, builder, vtx, conn, links, edges, invs, takes,
                   heap, spans, source, nsent, ncascade>>

\* The goroutine of line 252 runs: the wrappers inward and the raw handler.
Enter(v, i, f) ==
    /\ ~Crashed
    /\ invs[v][i].pc = "enter"
    /\ LET M == Down(Machine(invs[v][i]), vtx[v], f)
       IN /\ Commit(v, i, M)
          /\ edges' = Forwarded(edges, v, M)
    /\ UNCHANGED <<ctxDone, builder, vtx, conn, links, takes, source, nsent,
                   ncascade>>

\* The raw handler has returned: the wrappers, outward.
Return(v, i, f) ==
    /\ ~Crashed
    /\ invs[v][i].pc = "return"
    /\ Commit(v, i, Up(Machine(invs[v][i]), vtx[v], f))
    /\ UNCHANGED <<ctxDone, builder, vtx, conn, links, edges, takes, source,
                   nsent, ncascade>>

\* debug, lines 164-167: the loop of line 163 is at packet n of the
\* payload and reads its Snapshots.  Nothing orders this read and the store
\* that follows with the debug wrapper of another vertex holding the same
\* packet.
ReadSnap(v, i) ==
    /\ ~Crashed
    /\ invs[v][i].pc = "read"
    /\ LET inv == invs[v][i]
           p == Payload(inv)[inv.n]
       IN invs' = [invs EXCEPT ![v][i].pc = "append",
                               ![v][i].read = heap[p].Snapshots]
    /\ UNCHANGED <<ctxDone, builder, vtx, conn, links, edges, loops, takes,
                   heap, spans, source, nsent, ncascade>>

\* debug, lines 167-172: the Snapshots read are stored back in packet n with
\* the record of this vertex appended; the loop goes to the next packet,
\* and after the last one the wrappers outside debug go on.
AppendSnap(v, i, f) ==
    /\ ~Crashed
    /\ invs[v][i].pc = "append"
    /\ LET M == Machine(invs[v][i])
           inv == M.inv
           p == Payload(inv)[inv.n]
           M1 == [M EXCEPT !.heap[p].Snapshots = Append(inv.read, inv.pend[inv.n]),
                           !.inv.read = <<>>]
       IN IF inv.n < Len(inv.pend)
          THEN Commit(v, i, [M1 EXCEPT !.inv.pc = "read", !.inv.n = @ + 1])
          ELSE Commit(v, i, Up(Ret([M1 EXCEPT !.inv.pend = <<>>, !.inv.n = 0]),
                               vtx[v], f))
    /\ UNCHANGED <<ctxDone, builder, vtx, conn, links, edges, takes, source,
                   nsent, ncascade>>

(***************************************************************************)
(* Specifications.                                                         *)
(***************************************************************************)
\* What is the same in every initial state: nothing has run yet.
Quiet ==
    /\ ctxDone = FALSE
    /\ links = {}
    /\ edges = [e \in Edges |-> <<>>]
    /\ invs = [v \in Vertices |-> <<>>]
    /\ takes = [v \in Vertices |-> <<>>]
    /\ heap = <<>>
    /\ spans = <<>>
    /\ nsent = 0

\* A plain source sends untraced packets that encode, to a raw handler
\* that changes Data.
Plain(h) == source = [traced |-> FALSE, data |-> "d0"] /\ h = "data"

\* Spec: vertex a has been wired by one cascade, on edge "in"; b has not.
\* Every option and payloads that encode; under serial dispatch with and
\* without recorder, both vertex types, traced and untraced sources and
\* every raw handler; under concurrent dispatch a map vertex without
\* recorder, with the plain source and raw handler, and Debug only together
\* with Metrics, Span and DeepCopy.  The code called panics with values
\* that are not nil, the tracer at its first call of a loop.
Init ==
    /\ Quiet
    /\ source \in [traced : BOOLEAN, data : {"d0"}]
    /\ \E o \in Options, r \in BOOLEAN, t \in {"map", "transmit"},
          h \in RawKinds :
         /\ \/ o.FIFO[1]
            \/ /\ Plain(h) /\ ~r /\ t = "map"
               /\ o.Debug[1] => (o.Metrics[1] /\ o.Span[1] /\ o.DeepCopy[1])
         /\ builder = [option |-> o, recorder |-> r, vertacies |-> {"a"}]
         /\ vtx = [v \in Vertices |->
                     IF v = "a"
                     THEN Wired(NewVertex("a", t, NoOption, h), builder, "in")
                     ELSE NewVertex(v, "map", NoOption, h)]
    /\ conn = [v \in Vertices |-> IF v = "a" THEN 1 ELSE 0]
    /\ loops = <<run("a")>>
    /\ ncascade = 1

Next ==
    \/ \E n \in BatchSizes : Send(n)
    \/ Cancel
    \/ \E l \in DOMAIN loops :
         \E f \in Faults(vtx[loops[l].v], vtx[loops[l].v].handler) :
            Take(l, f)
    \/ \E l \in DOMAIN loops : Stop(l)
    \/ \E v \in Vertices : \E i \in DOMAIN invs[v] :
         \E f \in Faults(vtx[v], invs[v][i].chain) : Enter(v, i, f)
    \/ \E v \in Vertices : \E i \in DOMAIN invs[v] :
         \E f \in Faults(vtx[v], invs[v][i].chain) : Return(v, i, f)
    \/ \E v \in Vertices : \E i \in DOMAIN invs[v] : ReadSnap(v, i)
    \/ \E v \in Vertices : \E i \in DOMAIN invs[v] :
         \E f \in Faults(vtx[v], invs[v][i].chain) : AppendSnap(v, i, f)

Spec == Init /\ [][Next]_vars

\* SpecPipe: a pipeline of the two vertices, a reading "in" and sending on
\* "ab", the transmit vertex b reading "ab"; both wired with the builder's
\* option, in which Debug, DeepCopy and FIFO vary, and with handlers that
\* do not panic.
InitPipe ==
    /\ Quiet
    /\ source = [traced |-> FALSE, data |-> "d0"]
    /\ \E d, c, q \in BOOLEAN :
         builder = [option |-> [f \in OptionFields |->
                                  CASE f = "Debug" -> Set(d)
                                    [] f = "DeepCopy" -> Set(c)
                                    [] f = "FIFO" -> Set(q)
                                    [] OTHER -> Set(FALSE)],
                    recorder |-> FALSE, vertacies |-> Vertices]
    /\ vtx = [v \in Vertices |->
                Wired(NoPanics(NewVertex(v, IF v = "a" THEN "map"
                                                      ELSE "transmit",
                                         NoOption, "data")),
                      builder, IF v = "a" THEN "in" ELSE "ab")]
    /\ conn = [v \in Vertices |-> 1]
    /\ loops = <<run("a"), run("b")>>
    /\ ncascade = 2

SpecPipe == InitPipe /\ [][Next]_vars

\* SpecShare: the two vertices were wired with the same edge instance,
\* "in", as their input; Debug and FIFO vary.
InitShare ==
    /\ Quiet
    /\ source = [traced |-> FALSE, data |-> "d0"]
    /\ \E d, q \in BOOLEAN :
         builder = [option |-> [f \in OptionFields |->
                                  CASE f = "Debug" -> Set(d)
                                    [] f = "FIFO" -> Set(q)
                                    [] OTHER -> Set(FALSE)],
                    recorder |-> FALSE, vertacies |-> Vertices]
    /\ vtx = [v \in Vertices |->
                Wired(NewVertex(v, "map", NoOption, "data"), builder, "in")]
    /\ conn = [v \in Vertices |-> 1]
    /\ loops = <<run("a"), run("b")>>
    /\ ncascade = 2

SpecShare == InitShare /\ [][Next]_vars

\* SpecLive: one map vertex wired on "in", Debug and FIFO varying, and
\* fair scheduling.  The select of run chooses at random among its ready
\* cases, so a loop that is in its select again and again with the context
\* done does stop: strong fairness of Stop.  A handler that was called
\* returns: weak fairness of the steps of an invocation.
InitLive ==
    /\ Quiet
    /\ source = [traced |-> FALSE, data |-> "d0"]
    /\ \E d, q \in BOOLEAN :
         builder = [option |-> [f \in OptionFields |->
                                  CASE f = "Debug" -> Set(d)
                                    [] f = "FIFO" -> Set(q)
                                    [] OTHER -> Set(FALSE)],
                    recorder |-> FALSE, vertacies |-> {"a"}]
    /\ vtx = [v \in Vertices |->
                IF v = "a"
                THEN Wired(NewVertex(v, "map", NoOption, "data"), builder, "in")
                ELSE NewVertex(v, "map", NoOption, "data")]
    /\ conn = [v \in Vertices |-> IF v = "a" THEN 1 ELSE 0]
    /\ loops = <<run("a")>>
    /\ ncascade = 1

Fairness ==
    /\ SF_vars(Stop(1))
    /\ WF_vars(\E i \in DOMAIN invs["a"] :
                 \E f \in Faults(vtx["a"], invs["a"][i].chain) : Return("a", i, f))
    /\ WF_vars(\E i \in DOMAIN invs["a"] : ReadSnap("a", i))
    /\ WF_vars(\E i \in DOMAIN invs["a"] :
                 \E f \in Faults(vtx["a"], invs["a"][i].chain) : AppendSnap("a", i, f))

SpecLive == InitLive /\ [][Next]_vars /\ Fairness

\* SpecBad: one map vertex wired on "in", with DeepCopy, Debug and FIFO
\* varying, a producer whose packets have Data that does not encode, or
\* Data that does, and a handler that does not panic.
InitBad ==
    /\ Quiet
    /\ source \in [traced : {FALSE}, data : {"d0", "bad"}]
    /\ \E c, d, q \in BOOLEAN :
         builder = [option |-> [f \in OptionFields |->
                                  CASE f = "DeepCopy" -> Set(c)
                                    [] f = "Debug" -> Set(d)
                                    [] f = "FIFO" -> Set(q)
                                    [] OTHER -> Set(FALSE)],
                    recorder |-> FALSE, vertacies |-> {"a"}]
    /\ vtx = [v \in Vertices |->
                IF v = "a"
                THEN Wired(NoPanics(NewVertex(v, "map", NoOption, "data")),
                           builder, "in")
                ELSE NewVertex(v, "map", NoOption, "data")]
    /\ conn = [v \in Vertices |-> IF v = "a" THEN 1 ELSE 0]
    /\ loops = <<run("a")>>
    /\ ncascade = 1

SpecBad == InitBad /\ [][Next]_vars

\* SpecNil: one map vertex wired on "in", with a recorder; Metrics, Span,
\* Debug and FIFO vary; the raw handler, the recorder, the meter and the
\* tracer may panic with nil as well as with another value.
InitNil ==
    /\ Quiet
    /\ source = [traced |-> FALSE, data |-> "d0"]
    /\ \E m, s, d, q \in BOOLEAN :
         builder = [option |-> [f \in OptionFields |->
                                  CASE f = "Metrics" -> Set(m)
                                    [] f = "Span" -> Set(s)
                                    [] f = "Debug" -> Set(d)
                                    [] f = "FIFO" -> Set(q)
                                    [] OTHER -> Set(FALSE)],
                    recorder |-> TRUE, vertacies |-> {"a"}]
    /\ vtx = [v \in Vertices |->
                IF v = "a"
                THEN Wired(PanicsNil(NewVertex(v, "map", NoOption, "data")),
                           builder, "in")
                ELSE NewVertex(v, "map", NoOption, "data")]
    /\ conn = [v \in Vertices |-> IF v = "a" THEN 1 ELSE 0]
    /\ loops = <<run("a")>>
    /\ ncascade = 1

SpecNil == InitNil /\ [][Next]_vars

\* SpecTrace: one vertex wired on "in", with Span and Debug varying; under
\* serial dispatch map and transmit vertices, traced and untraced sources
\* and every raw handler, under concurrent dispatch a map vertex without
\* Debug, with the plain source and raw handler.  The tracer may panic at
\* any of its calls.
InitTrace ==
    /\ Quiet
    /\ source \in [traced : BOOLEAN, data : {"d0"}]
    /\ \E s, d, q \in BOOLEAN, t \in {"map", "transmit"}, h \in RawKinds :
         /\ q \/ (Plain(h) /\ t = "map" /\ ~d)
         /\ builder = [option |-> [f \in OptionFields |->
                                     CASE f = "Span" -> Set(s)
                                       [] f = "Debug" -> Set(d)
                                       [] f = "FIFO" -> Set(q)
                                       [] OTHER -> Set(FALSE)],
                       recorder |-> FALSE, vertacies |-> {"a"}]
         /\ vtx = [v \in Vertices |->
                     IF v = "a"
                     THEN Wired(PanicsAnyCall(NewVertex(v, t, NoOption, h)),
                                builder, "in")
                     ELSE NewVertex(v, "map", NoOption, h)]
    /\ conn = [v \in Vertices |-> IF v = "a" THEN 1 ELSE 0]
    /\ loops = <<run("a")>>
    /\ ncascade = 1

SpecTrace == InitTrace /\ [][Next]_vars

\* SpecWire: the builder's calls of cascade on vertices not wired yet, with
\* any input edge, any number of times; no batch is sent.
InitWire ==
    /\ Quiet
    /\ source = [traced |-> FALSE, data |-> "d0"]
    /\ builder \in [option : Options, recorder : BOOLEAN, vertacies : {{}}]
    /\ \E ta, tb \in VertexTypes :
       \E la \in {NoOption, [NoOption EXCEPT !.FIFO = Set(TRUE)]} :
         vtx = [v \in Vertices |->
                  IF v = "a" THEN NewVertex(v, ta, la, "data")
                  ELSE NewVertex(v, tb, NoOption, "data")]
    /\ conn = [v \in Vertices |-> 0]
    /\ loops = <<>>
    /\ ncascade = 0

NextWire == \E v \in Vertices, e \in {"in", "ab"} : Cascade(v, e)

SpecWire == InitWire /\ [][NextWire]_vars

(***************************************************************************)
(* Properties.                                                             *)
(***************************************************************************)
\* The non-empty batches among those v's loops took, in the order taken.
RECURSIVE NonEmpty(_)
NonEmpty(ts) ==
    IF ts = <<>> THEN <<>>
    ELSE IF Len(Head(ts).batch) >= 1
    THEN <<Head(ts).batch>> \o NonEmpty(Tail(ts))
    ELSE NonEmpty(Tail(ts))

Batches(v) == [i \in 1..Len(invs[v]) |-> invs[v][i].batch]

\* C1: a vertex with FIFO set invokes its handler on the batches in the
\* order they arrived and were taken, one at a time: an invocation exists
\* only when every earlier one of the vertex has returned.
C1_SerialInOrder ==
    \A v \in Vertices :
        (IsWired(v) /\ Opt(vtx[v], "FIFO")) =>
            /\ Batches(v) = NonEmpty(takes[v])
            /\ \A i, j \in 1..Len(invs[v]) :
                 i < j => /\ invs[v][i].pc = "done"
                          /\ invs[v][i].batch[1] < invs[v][j].batch[1]
            /\ \A i \in 1..Len(invs[v]) : invs[v][i].pc # "enter"

\* Two batches went through a FIFO vertex, one after the other.
C1_Witness ==
    \E v \in Vertices :
        /\ (IsWired(v) /\ Opt(vtx[v], "FIFO"))
        /\ Len(invs[v]) = 2
        /\ invs[v][1].pc = "done" /\ invs[v][2].pc = "done"
        /\ invs[v][1].seen # <<>> /\ invs[v][2].seen # <<>>

\* The loop that dispatched invocation inv.
LoopOf(inv) == loops[inv.loop]

\* C2: every panic of an invocation is logged exactly once, with the
\* vertex id and the id of every packet of the batch, and an invocation
\* that does not panic logs nothing; no panic ends the process, and the
\* loop is back in its select once the invocation it called has returned.
C2_PanicContained ==
    /\ ~Crashed
    /\ \A v \in Vertices : \A i \in 1..Len(invs[v]) :
         LET inv == invs[v][i]
         IN /\ inv.pc # "crashed"
            /\ Len(inv.log) = inv.faults
            /\ \A n \in 1..Len(inv.log) :
                 /\ inv.log[n].id = v
                 /\ inv.log[n].ids = inv.batch
            /\ (inv.pc = "done" /\ i = Len(invs[v])) =>
                   LoopOf(inv).state \in {"select", "stopped"}
            /\ ~inv.sync => LoopOf(inv).state \in {"select", "stopped"}

\* C3: the invocations of a vertex are, in order, the non-empty batches it
\* took: one invocation for each, on that batch, and none for an empty one.
C3_OneInvocationPerBatch ==
    \A v \in Vertices :
        /\ Batches(v) = NonEmpty(takes[v])
        /\ \A i \in 1..Len(invs[v]) :
             /\ Len(invs[v][i].batch) >= 1
             /\ invs[v][i].seen # <<>> => Len(invs[v][i].seen) = Len(invs[v][i].batch)

\* An empty batch and then a non-empty one were taken, under concurrent
\* dispatch: one invocation.
C3_Witness ==
    \E v \in Vertices :
        /\ (IsWired(v) /\ ~Opt(vtx[v], "FIFO"))
        /\ Len(takes[v]) = 2
        /\ takes[v][1].batch = <<>>
        /\ Len(invs[v]) = 1
        /\ invs[v][1].pc = "done"
        /\ invs[v][1].faults = 0
        /\ invs[v][1].batch = takes[v][2].batch

\* C4: no batch is taken from the edge once the context is cancelled.
C4_NoTakeAfterCancel ==
    \A v \in Vertices : \A n \in 1..Len(takes[v]) : ~takes[v][n].done

Copies(v) == IsWired(v) /\ Opt(vtx[v], "DeepCopy")

\* C6: under DeepCopy the raw handler is given copies, none of them a
\* packet of the batch taken from the edge, and the Data and Error of the
\* packets of that batch stay what they were when the batch was taken.
C6_OriginalsUntouched ==
    \A v \in Vertices : \A i \in 1..Len(invs[v]) :
        LET inv == invs[v][i]
        IN Copies(v) =>
             /\ \A m, n \in 1..Len(inv.batch) :
                  n <= Len(inv.seen) => inv.seen[n] # inv.batch[m]
             /\ \A n \in 1..Len(inv.batch) :
                  <<heap[inv.batch[n]].Data, heap[inv.batch[n]].Error>>
                      = inv.orig[n]

\* Under DeepCopy a raw handler has changed its packets, the copies, and
\* the invocation has returned.
C6_Witness ==
    \E v \in Vertices : \E i \in 1..Len(invs[v]) :
        LET inv == invs[v][i]
        IN /\ Copies(v)
           /\ inv.pc = "done"
           /\ inv.faults = 0
           /\ Len(inv.seen) = MaxPkts
           /\ \A n \in 1..Len(inv.seen) :
                <<heap[inv.seen[n]].Data, heap[inv.seen[n]].Error>>
                    # inv.orig[n]

\* C7 as stated: under DeepCopy each packet given to the raw handler has
\* the trace handle of the packet of the batch it is the copy of.
C7_SameHandle ==
    \A v \in Vertices : \A i \in 1..Len(invs[v]) :
        LET inv == invs[v][i]
        IN Copies(v) =>
             \A n \in 1..Len(inv.seen) :
                 heap[inv.seen[n]].span = heap[inv.batch[n]].span

\* C7, amended: the copy has the handle of its original when the original
\* arrived with one or Span is off (then neither has one); when Span is on
\* and the original arrived with none, the copy has a handle opened for
\* it, and the original still has none.
C7_SameHandleUnlessOpened ==
    \A v \in Vertices : \A i \in 1..Len(invs[v]) :
        LET inv == invs[v][i]
        IN Copies(v) =>
             \A n \in 1..Len(inv.seen) :
                 LET o == heap[inv.batch[n]].span
                     c == heap[inv.seen[n]].span
                 IN IF source.traced \/ ~Opt(vtx[v], "Span")
                    THEN c = o /\ (o # 0 <=> source.traced)
                    ELSE o = 0 /\ c # 0 /\ c \in DOMAIN spans

\* Under DeepCopy and Span, packets that came with a trace handle were
\* copied and handled.
C7_Witness ==
    \E v \in Vertices : \E i \in 1..Len(invs[v]) :
        LET inv == invs[v][i]
        IN /\ Copies(v)
           /\ Opt(vtx[v], "Span")
           /\ inv.pc = "done"
           /\ inv.faults = 0
           /\ Len(inv.seen) = MaxPkts
           /\ \A n \in 1..Len(inv.seen) :
                /\ heap[inv.batch[n]].span # 0
                /\ inv.seen[n] # inv.batch[n]
                /\ heap[inv.seen[n]].span = heap[inv.batch[n]].span

\* C9: an invocation that panicked has forwarded nothing, and no other
\* invocation of the vertex is on its batch.
C9_FaultForwardsNothing ==
    \A v \in Vertices : \A i \in 1..Len(invs[v]) :
        invs[v][i].faults > 0 =>
            /\ ~invs[v][i].fwd
            /\ \A j \in 1..Len(invs[v]) :
                 j # i => invs[v][j].batch # invs[v][i].batch

AllOn(v) ==
    /\ IsWired(v)
    /\ \A f \in OptionFields \ {"FIFO"} : Opt(vtx[v], f)
    /\ builder.recorder

RuntimeOrder ==
    <<"recover", "debug", "deepCopy", "span", "metrics", "record">>

Reverse(q) == [n \in 1..Len(q) |-> q[Len(q) + 1 - n]]

FullRun ==
    [n \in 1..Len(RuntimeOrder) |-> <<RuntimeOrder[n], "pre">>]
        \o <<<<"handler", "call">>>>
        \o [n \in 1..Len(RuntimeOrder) |-> <<Reverse(RuntimeOrder)[n], "post">>]

IsPrefix(p, q) == Len(p) <= Len(q) /\ p = SubSeq(q, 1, Len(p))

Pre(ev) == ev[2] = "pre"

\* C10: with every option on and a recorder, the wrappers are entered in
\* the order recover, debug, deepCopy, span, metrics, record, then the raw
\* handler is called, and the wrappers are left in the reverse order.
C10_RuntimeOrder ==
    \A v \in Vertices : \A i \in 1..Len(invs[v]) :
        LET inv == invs[v][i]
        IN AllOn(v) =>
             /\ IsPrefix(SelectSeq(inv.events, Pre), SubSeq(FullRun, 1, 6))
             /\ inv.faults = 0 => IsPrefix(inv.events, FullRun)
             /\ (inv.faults = 0 /\ inv.pc = "done") => inv.events = FullRun

\* With every option on an invocation ran through all the wrappers.
C10_Witness ==
    \E v \in Vertices : \E i \in 1..Len(invs[v]) :
        AllOn(v) /\ invs[v][i].pc = "done" /\ invs[v][i].events = FullRun

Count(q, x) == Cardinality({n \in 1..Len(q) : q[n] = x})

LoopsOf(v) == {l \in DOMAIN loops : loops[l].v = v}

WiredOnce(v) ==
    /\ \A w \in {"record", "metrics", "span", "deepCopy", "debug", "recover"} :
         Count(vtx[v].handler, w) <= 1
    /\ Cardinality(LoopsOf(v)) <= 1
    /\ IsWired(v) => /\ Count(vtx[v].handler, "recover") = 1
                     /\ Count(vtx[v].handler, "span") = 1
                     /\ Cardinality(LoopsOf(v)) = 1

\* C5 as stated: whatever cascade calls were made, every vertex has each
\* wrapper at most once in its handler and at most one loop, and a wired
\* vertex has the wrappers and the loop once.
C5_WiredOnce == \A v \in Vertices : WiredOnce(v)

\* C5, amended: so it is for every vertex whose type is not "stream".
C5_WiredOnceUnlessStream ==
    \A v \in Vertices : vtx[v].vertexType # "stream" => WiredOnce(v)

\* A vertex that is no stream was reached by cascade a second time, from
\* another edge.
C5_Witness ==
    \E v \in Vertices :
        /\ vtx[v].vertexType # "stream"
        /\ IsWired(v)
        /\ \E e \in Edges : e # vtx[v].input /\ <<e, vtx[v].input>> \in links
        /\ WiredOnce(v)

\* Nothing is waiting and nothing is running.
Drained ==
    /\ \A e \in Edges : edges[e] = <<>>
    /\ \A v \in Vertices : \A i \in DOMAIN invs[v] : invs[v][i].pc = "done"
    /\ \A v \in Vertices : \A i \in DOMAIN invs[v] : invs[v][i].faults = 0

SnapshotIDs(r) == [n \in 1..Len(heap[r].Snapshots) |-> heap[r].Snapshots[n].ID]

\* C8: once the pipeline a, b has drained with no fault, each packet the
\* raw handler of the last vertex was given carries no snapshot record when
\* Debug is off and the records of a and b, in this order, when it is on.
C8_SnapshotPerVertex ==
    Drained =>
        \A i \in DOMAIN invs["b"] :
          \A n \in 1..Len(invs["b"][i].seen) :
             SnapshotIDs(invs["b"][i].seen[n])
                 = IF Opt(vtx["b"], "Debug") THEN <<"a", "b">> ELSE <<>>

\* C11: the loop of a vertex without FIFO never waits for an invocation:
\* it is in its select or stopped, whatever invocations are in flight, and
\* in its select it can take a waiting batch and can stop once the context
\* is cancelled.
C11_LoopNeverWaits ==
    \A l \in DOMAIN loops :
        LET v == loops[l].v
        IN ~Opt(vtx[v], "FIFO") =>
             /\ loops[l].state \in {"select", "stopped"}
             /\ (loops[l].state = "select" /\ edges[vtx[v].input] # <<>>)
                    => ENABLED (\E f \in {NoFault} : Take(l, f))
             /\ (loops[l].state = "select" /\ ctxDone) => ENABLED Stop(l)

\* Without FIFO the second batch was taken and handled while the
\* invocation on the first has not begun to run; the loop is in its select.
C11_Witness ==
    \E v \in Vertices :
        /\ IsWired(v) /\ ~Opt(vtx[v], "FIFO")
        /\ Len(invs[v]) = 2
        /\ invs[v][1].pc = "enter"
        /\ invs[v][2].pc = "done"
        /\ \E l \in LoopsOf(v) : loops[l].state = "select"

\* The trace handles of the packets of a batch.
Handles(batch) ==
    {heap[batch[n]].span : n \in 1..Len(batch)} \ {0}

\* C12: no trace handle is closed more than once, none is closed by a
\* vertex that is not a transmit vertex, and when the invocation of a
\* transmit vertex on a batch is over, each handle of its packets has been
\* closed once.
C12_ClosedOnceAtTerminus ==
    /\ \A sp \in DOMAIN spans : spans[sp].ended <= 1
    /\ \A v \in Vertices : \A i \in 1..Len(invs[v]) :
         LET inv == invs[v][i]
         IN /\ vtx[v].vertexType # "transmit" =>
                 \A sp \in Handles(inv.batch) : spans[sp].ended = 0
            /\ (vtx[v].vertexType = "transmit" /\ inv.pc = "done") =>
                 \A sp \in Handles(inv.batch) : spans[sp].ended = 1

\* C13: when vertices share their input edge and nothing is waiting on it
\* any more, each of them has taken every batch with packets that was
\* placed on it.
C13_Multicast ==
    \A v, w \in Vertices :
        (IsWired(v) /\ IsWired(w) /\ vtx[v].input = vtx[w].input
           /\ edges[vtx[v].input] = <<>>)
            => NonEmpty(takes[v]) = NonEmpty(takes[w])

AllStopped == \A l \in DOMAIN loops : loops[l].state = "stopped"

\* C14: once the context is cancelled every loop comes to be stopped, and
\* a stopped loop stays stopped.
C14_EventuallyStopped ==
    /\ ctxDone ~> AllStopped
    /\ [][\A l \in DOMAIN loops :
            loops[l].state = "stopped" => loops'[l].state = "stopped"]_vars

\* With FIFO the context was cancelled, the invocation the loop had called
\* has returned, and the loop has stopped with a batch left on the edge.
C14_Witness ==
    /\ ctxDone
    /\ AllStopped
    /\ Opt(vtx["a"], "FIFO")
    /\ Len(invs["a"]) = 1
    /\ invs["a"][1].pc = "done"
    /\ edges["in"] # <<>>

\* The pre-handler steps of instrumentation in the events of an invocation
\* of v: the metrics wrapper's, and the span wrapper's when Span is on.
Instruments(v, ev) ==
    {m \in 1..Len(ev) :
        \/ ev[m] = <<"metrics", "pre">>
        \/ ev[m] = <<"span", "pre">> /\ Opt(vtx[v], "Span")}

Audits(ev) == {n \in 1..Len(ev) : ev[n] = <<"record", "pre">>}

\* C15 as stated: in every invocation the recorder is called before the
\* pre-handler steps of the metrics and span wrappers.
C15_AuditBeforeInstruments ==
    \A v \in Vertices : \A i \in 1..Len(invs[v]) :
        \A n \in Audits(invs[v][i].events) :
            \A m \in Instruments(v, invs[v][i].events) : n < m

\* C15, amended: in every invocation the recorder is called after the
\* pre-handler steps of the metrics and span wrappers, and the raw handler
\* is called right after the recorder.
C15_AuditAfterInstruments ==
    \A v \in Vertices : \A i \in 1..Len(invs[v]) :
        LET ev == invs[v][i].events
        IN /\ \A n \in Audits(ev) : \A m \in Instruments(v, ev) : m < n
           /\ \A n \in 1..Len(ev) :
                (ev[n] = <<"handler", "call">>
                   /\ Count(invs[v][i].chain, "record") = 1)
                    => n - 1 \in Audits(ev)
           /\ Cardinality(Audits(ev)) <= 1

\* With a recorder, Metrics and Span, an invocation ran without panic.
C15_Witness ==
    \E v \in Vertices : \E i \in 1..Len(invs[v]) :
        LET ev == invs[v][i].events
        IN /\ invs[v][i].pc = "done" /\ invs[v][i].faults = 0
           /\ Audits(ev) # {}
           /\ Cardinality(Instruments(v, ev)) = 2

\* Where the step <<w, what>> is in the events ev; 0 when it is not there.
At(ev, w, what) ==
    IF \E n \in 1..Len(ev) : ev[n] = <<w, what>>
    THEN CHOOSE n \in 1..Len(ev) : ev[n] = <<w, what>>
    ELSE 0

Instrumented(v) ==
    /\ IsWired(v)
    /\ Opt(vtx[v], "Metrics") /\ Opt(vtx[v], "Span") /\ Opt(vtx[v], "DeepCopy")

\* C16 as stated: with Metrics, Span and DeepCopy the pre-handler steps of
\* metrics and span come before the copy is made, and their post-handler
\* steps after the deepCopy wrapper's call has returned.
C16_InstrumentsBracketCopy ==
    \A v \in Vertices : \A i \in 1..Len(invs[v]) :
        LET ev == invs[v][i].events
        IN Instrumented(v) =>
             \A w \in {"metrics", "span"} :
                 /\ (At(ev, w, "pre") # 0 /\ At(ev, "deepCopy", "pre") # 0)
                        => At(ev, w, "pre") < At(ev, "deepCopy", "pre")
                 /\ (At(ev, w, "post") # 0 /\ At(ev, "deepCopy", "post") # 0)
                        => At(ev, "deepCopy", "post") < At(ev, w, "post")

\* C16, amended: the copy is made before the pre-handler steps of metrics
\* and span, their post-handler steps come before the deepCopy wrapper
\* returns, and the payload they work on is the copies, no packet of the
\* batch taken.
C16_CopyBracketsInstruments ==
    \A v \in Vertices : \A i \in 1..Len(invs[v]) :
        LET inv == invs[v][i]
            ev == inv.events
        IN Instrumented(v) =>
             \A w \in {"metrics", "span"} :
                 /\ At(ev, w, "pre") # 0
                        => /\ At(ev, "deepCopy", "pre") # 0
                           /\ At(ev, "deepCopy", "pre") < At(ev, w, "pre")
                 /\ At(ev, "deepCopy", "post") # 0
                        => /\ At(ev, w, "post") # 0
                           /\ At(ev, w, "post") < At(ev, "deepCopy", "post")
                 /\ \A k \in 1..Len(inv.frames) :
                      (k <= Len(inv.chain) /\ inv.chain[k] = w) =>
                          \A n \in 1..Len(inv.frames[k]) :
                            \A m \in 1..Len(inv.batch) :
                               inv.frames[k][n] # inv.batch[m]

\* With Metrics, Span and DeepCopy an invocation ran without panic.
C16_Witness ==
    \E v \in Vertices : \E i \in 1..Len(invs[v]) :
        /\ Instrumented(v)
        /\ invs[v][i].pc = "done" /\ invs[v][i].faults = 0
        /\ At(invs[v][i].events, "metrics", "post") # 0
        /\ At(invs[v][i].events, "deepCopy", "post") # 0

\* The trace handles the packets had when the producer sent them.
SourceHandles ==
    IF source.traced
    THEN {Ref(n, j) : n \in 1..nsent, j \in 1..MaxPkts} \cap DOMAIN spans
    ELSE {}

SpanOff(v) == IsWired(v) /\ ~Opt(vtx[v], "Span")

\* With Span off at the vertex no handle was created and no event emitted.
NothingTraced ==
    /\ DOMAIN spans = SourceHandles
    /\ \A sp \in DOMAIN spans : spans[sp].events = 0

\* C17 as stated: with Span off the span wrapper creates no handle, emits
\* no event and closes no handle, whatever the type of the vertex.
C17_SpanOffOnlyDelegates ==
    SpanOff("a") =>
        /\ NothingTraced
        /\ \A sp \in DOMAIN spans : spans[sp].ended = 0

\* C17, amended: with Span off the span wrapper creates no handle and
\* emits no event; at a vertex that is not a transmit vertex it closes no
\* handle, and at a transmit vertex it closes, once, each handle the
\* packets of the batch have.
C17_SpanOffStillEnds ==
    SpanOff("a") =>
        /\ NothingTraced
        /\ vtx["a"].vertexType # "transmit" =>
               \A sp \in DOMAIN spans : spans[sp].ended = 0
        /\ vtx["a"].vertexType = "transmit" =>
               \A i \in 1..Len(invs["a"]) :
                   LET inv == invs["a"][i]
                   IN \A sp \in Handles(inv.batch) :
                        /\ spans[sp].ended <= 1
                        /\ (inv.pc = "done" /\ inv.faults = 0)
                               => spans[sp].ended = 1
                        /\ At(inv.events, "span", "post") = 0
                               => spans[sp].ended = 0

\* With Span off a transmit vertex handled packets that came with handles.
C17_Witness ==
    /\ SpanOff("a")
    /\ vtx["a"].vertexType = "transmit"
    /\ \E i \in 1..Len(invs["a"]) :
         /\ invs["a"][i].pc = "done" /\ invs["a"][i].faults = 0
         /\ Cardinality(Handles(invs["a"][i].batch)) = MaxPkts
         /\ \A sp \in Handles(invs["a"][i].batch) : spans[sp].ended = 1

\* A panic in the step <<w, what>> of the events ev: the recover wrapper's
\* deferred function ran right after it.
\* C18: on a batch that does not encode, handled by code that does not
\* panic of itself, neither the deepCopy wrapper nor the debug wrapper
\* panics (the invocation has no panic at all), and the raw handler is
\* called once the deepCopy wrapper has been entered.
C18_EncodeFailureIgnored ==
    \A v \in Vertices : \A i \in 1..Len(invs[v]) :
        LET inv == invs[v][i]
        IN ~GobOK(heap, inv.batch) =>
             /\ inv.faults = 0
             /\ inv.log = <<>>
             /\ At(inv.events, "deepCopy", "pre") # 0
                    => At(inv.events, "handler", "call") # 0

\* C19: a cascade call on a vertex that has an input edge and is no stream
\* merges the new edge into that input edge and leaves the vertex (its
\* handler, option and input), the loops, the registry and the count of
\* calls of the vertex's connector as they were.
C19_CascadeOnlyMerges ==
    [][\A v \in Vertices, e \in Edges :
         (Cascade(v, e) /\ vtx[v].input # NoEdge
                        /\ vtx[v].vertexType # "stream")
             => /\ <<e, vtx[v].input>> \in links'
                /\ UNCHANGED <<vtx, loops, builder, conn, edges>>]_vars

\* A wired vertex that is no stream was reached by cascade from another
\* edge: the edges are merged, and it has one loop and its connector was
\* called once.
C19_Witness ==
    \E v \in Vertices :
        /\ vtx[v].input # NoEdge /\ vtx[v].vertexType # "stream"
        /\ \E e \in Edges : e # vtx[v].input /\ <<e, vtx[v].input>> \in links
        /\ Cardinality(LoopsOf(v)) = 1
        /\ conn[v] = 1
        /\ v \in builder.vertacies

CopiedAndSnapshot(v) ==
    IsWired(v) /\ Opt(vtx[v], "DeepCopy") /\ Opt(vtx[v], "Debug")

\* C20: with DeepCopy and Debug, when an invocation is over without panic
\* each packet of the batch taken has the Data it had and one more
\* snapshot record, of this vertex and of that Data; the packets the raw
\* handler was given are others, and none has a record of this vertex; and
\* before the invocation is over the copies have none either.
C20_SnapshotOfOriginals ==
    \A v \in Vertices : \A i \in 1..Len(invs[v]) :
        LET inv == invs[v][i]
        IN CopiedAndSnapshot(v) =>
             /\ \A n \in 1..Len(inv.seen) :
                  /\ inv.seen[n] # inv.batch[n]
                  /\ \A m \in 1..Len(heap[inv.seen[n]].Snapshots) :
                       heap[inv.seen[n]].Snapshots[m].ID # v
             /\ (inv.pc = "done" /\ inv.faults = 0) =>
                  \A n \in 1..Len(inv.batch) :
                      /\ heap[inv.batch[n]].Data = inv.orig[n][1]
                      /\ heap[inv.batch[n]].Snapshots
                             = <<DebugInfo(v, inv.orig[n][1])>>

\* With DeepCopy and Debug the raw handler changed the Data of its copies
\* and the invocation is over: the originals have the record.
C20_Witness ==
    \E v \in Vertices : \E i \in 1..Len(invs[v]) :
        LET inv == invs[v][i]
        IN /\ CopiedAndSnapshot(v)
           /\ inv.pc = "done" /\ inv.faults = 0
           /\ Len(inv.seen) = MaxPkts
           /\ \A n \in 1..Len(inv.seen) :
                /\ heap[inv.seen[n]].Data # inv.orig[n][1]
                /\ Len(heap[inv.batch[n]].Snapshots) = 1

====
